---- MODULE Spec2Model ----
(***************************************************************************)
(* "Auto-Magic Document AI.py".                                            *)
(* Batch streaming coordinator: stream_files fans a list of file keys out  *)
(* to a thread pool of process_one workers and merges each completion      *)
(* into one wide table.                                                    *)
(* Pages: the single-document pipeline, Manage Classes and the batch       *)
(* upload, working on the five tables of ensure_tables.                    *)
(***************************************************************************)
EXTENDS Integers, Sequences, FiniteSets, TLC

\* ---------------------------------------------------------------- bounds
MaxFiles == 2        \* longest file list of Spec
MaxLongFiles == 2    \* longest file list of SpecLong
MaxPoolFiles == 3    \* longest file list of SpecPool
MaxFields == 2       \* most fields in a class schema of Spec
MaxCpus == 120       \* largest CPU count of SpecCpu
MaxWriteFaults == 2  \* most write_pandas calls that fail in one run
MaxRenderFiles == 3  \* longest file list of SpecRender
MaxElapsed == 302    \* longest run of SpecRender, in milliseconds
MaxTwiceFiles == 2   \* longest file list of SpecTwice
MaxRuns == 1         \* most runs of the single-document pipeline in SpecApp

\* ------------------------------------------------------- value universes
Keys == {"a", "b"}                    \* file keys a stage can hold
KeyCol == "file"                      \* key column of the table (line 839)
FieldNames == {"f", "g", "file"}      \* field names an answer can carry
SortedFields == <<"f", "file", "g">>  \* FieldNames in Python string order
NoneVal == "<None>"                   \* Python None / JSON null
Empty == ""                           \* the empty default of a cell
Vals == {"v", NoneVal}                \* values the service can return
Unknown == -1                         \* os.cpu_count() returned None
RenderGapMs == 150                    \* line 846: 0.15 seconds
EpochNow == 1000                      \* time.time() at line 840, in ms
ClockSteps == {0, 150, 151}           \* ms between two clock readings
SlowSteps == {151}                    \* the same when every item takes long

NoMap == [x \in {} |-> Empty]         \* the empty dict {}

\* Non-empty field->value mappings the service can put in "response" when
\* asked the questions of the fields in `asked`.
ResponseMaps(asked) ==
  UNION {[S -> Vals] : S \in (SUBSET asked) \ {{}}}

\* Outcomes of one ai_extract call that returns (lines 202-210): the parsed
\* result is a dict or not; a dict's "response" is a non-empty mapping, is
\* missing/null/empty ("falsy"), or is a truthy non-mapping ("scalar":
\* a string, a list, a number).
ExtractResults(asked) ==
  {[kind |-> "dict", resp |-> "map", m |-> mm] : mm \in ResponseMaps(asked)}
  \cup {[kind |-> "dict", resp |-> "falsy", m |-> NoMap],
        [kind |-> "dict", resp |-> "scalar", m |-> NoMap],
        [kind |-> "nondict", resp |-> "falsy", m |-> NoMap]}

\* Class names a classification returns or Manage Classes is given.
Classes == {"invoice", "w2"}

\* Host CPU counts the batch model is run with (os.cpu_count()).
CpuHints == {1, Unknown}

VARIABLES
  file_list,      \* the list of file keys given to stream_files
  prompts_obj,    \* field names of the class schema sent to ai_extract
  cpus,           \* what os.cpu_count() reports on this host
  horizon,        \* the latest clock reading of this run
  ticks,          \* the gaps between clock readings in this run
  write_faults,   \* write_pandas failures the store still produces
  max_workers,    \* size of the ThreadPoolExecutor
  wpc,            \* per submitted item: position of its process_one call
  starts,         \* per submitted item: how often process_one was entered
  res_obj,        \* per item: process_one's res_obj
  answers,        \* per item: process_one's answers
  fut,            \* per item: what the future holds once done
  writes,         \* per item: the persistence attempts process_one made
  DOCUMENTS_PROCESSED,         \* rows appended to the table
  DOCUMENTS_EXTRACTED_FIELDS,  \* rows appended to the table
  consumed,       \* futures already yielded by as_completed
  merged,         \* futures whose loop body ran to the counter
  all_keys,       \* the known-column set
  current_df,     \* the table being assembled
  done,           \* completed counter
  cpc,            \* position of the coordinator (the caller's thread)
  returned,       \* the table stream_files returned
  clock,          \* the last reading of time.time(), in ms
  last_render,    \* maybe_render's last_render[0], in ms
  shown,          \* the table last handed to show_table (table_ph)
  shown_at,       \* when show_table was last called, in ms
  renders,        \* number of show_table calls so far
  prog            \* the last prog.progress report: <<done, total>>

\* variable groups
VARIABLES
  CLASS_PROMPTS,  \* table: sequence of rows [class_name, prompts]
  NEW_UPLOADS,    \* table: sequence of rows [file_name, processed]
  DOCUMENT_OCR,   \* table: set of rows [idx, FILE_NAME, OCR]
  spc,            \* position of the page script in the single pipeline
  run,            \* number of pipeline runs started
  internal_name,  \* the uploaded file of the current run
  attempt,        \* classification queries issued in this run
  sleeps,         \* time.sleep(0.5) calls of this run
  doc_class,      \* doc_class of this run
  errors,         \* st.error messages of this run
  failed,         \* steps of this run that failed
  calls,          \* per step: how often this run issued it
  loaded,         \* what load_prompts_obj yielded, and whether its query ran
  single_prompts, \* prompts_obj of the page (normalize_for_extract result)
  sent,           \* the prompts ai_extract sends
  single_answers, \* answers of this run
  has_result,     \* extraction_result is bound
  ocr_failed,     \* ocr_text is the "(OCR failed: ...)" text
  marked          \* this run set processed = TRUE in NEW_UPLOADS

env == <<file_list, prompts_obj, cpus, horizon, ticks, max_workers>>
worker == <<wpc, starts, res_obj, answers, fut>>
store == <<write_faults, writes, DOCUMENTS_PROCESSED, DOCUMENTS_EXTRACTED_FIELDS>>
table == <<consumed, merged, all_keys, current_df, done, cpc, returned>>
render == <<clock, last_render, shown, shown_at, renders, prog>>
tables == <<CLASS_PROMPTS, NEW_UPLOADS, DOCUMENT_OCR>>
pipeline == <<spc, run, internal_name, attempt, sleeps, doc_class, errors,
              failed, calls, loaded, single_prompts, sent, single_answers,
              has_result, ocr_failed, marked>>
pipeline_but_spc ==
  <<run, internal_name, attempt, sleeps, doc_class, errors, failed, calls,
    loaded, single_prompts, sent, single_answers, has_result, ocr_failed,
    marked>>
app == <<tables, pipeline>>
batch == <<env, worker, table, render, write_faults, writes>>

vars == <<env, worker, store, table, render, app>>

total == Len(file_list)
Items == 1..Len(file_list)

Min(x, y) == IF x < y THEN x ELSE y
Max(x, y) == IF x > y THEN x ELSE y
Range(s) == {s[i] : i \in DOMAIN s}

\* ------------------------------------------------------------ pool size
\* line 881: min(8, max(2, (os.cpu_count() or 4))); `x or 4` is 4 when x
\* is None and also when x is 0.
PoolSizeNoCap(c) == Max(2, IF c = Unknown \/ c = 0 THEN 4 ELSE c)

PoolSize(c) == Min(8, Max(2, IF c = Unknown \/ c = 0 THEN 4 ELSE c))

\* ----------------------------------------------------------- process_one
EmptyAnswers == [isMap |-> TRUE, m |-> NoMap]
NoResObj == [kind |-> "empty", err |-> FALSE]

\* lines 853-854 on a returned r: res_obj is r when r is a dict, else {};
\* answers is res_obj.get("response", {}) or {}, whatever its type.
AnswersOf(r) ==
  IF r.kind = "dict" /\ r.resp = "map" THEN [isMap |-> TRUE, m |-> r.m]
  ELSE IF r.kind = "dict" /\ r.resp = "scalar" THEN [isMap |-> FALSE, m |-> NoMap]
  ELSE EmptyAnswers

ResObjOf(r) ==
  IF r.kind = "dict" THEN [kind |-> "raw", err |-> FALSE] ELSE NoResObj

\* line 856: res_obj = {"error": str(e)}; answers stays {}.
ResObjOnRaise == [kind |-> "error", err |-> TRUE]

\* Python truth value of answers (line 866).
Truthy(ans) == (~ans.isMap) \/ (DOMAIN ans.m # {})

\* lines 866-878: the field rows are built from answers.items(); on a
\* non-mapping that raises inside the try and no write is attempted.
FieldRows(ans) == IF ans.isMap THEN DOMAIN ans.m ELSE {}
AttemptsFields(ans) == Truthy(ans) /\ ans.isMap

\* lines 858-865, 867-878: one write_pandas call inside each try, nothing
\* in the except branch.
WriteTries(ok) == 1

ProcessOneResultLeaky(rel, ans, failed1, failed2) ==
  [exc |-> failed1 \/ failed2, rel |-> rel, answers |-> ans]

\* lines 865, 878 (`except Exception: pass`) and 879: what the future of
\* process_one holds given the outcome of the two writes.
ProcessOneResult(rel, ans, failed1, failed2) ==
  [exc |-> FALSE, rel |-> rel, answers |-> ans]

NoWrites == [proc |-> 0, procOk |-> FALSE, procErr |-> FALSE,
             fields |-> 0, fieldsOk |-> FALSE, rows |-> {}]
NoFut == [exc |-> FALSE, rel |-> "", answers |-> EmptyAnswers]

\* ------------------------------------------------------------ DataFrame
\* A DataFrame is its column list and its rows (index labels 0..n-1 are
\* positions 1..n here); a row maps every column to its cell.
Columns(df) == Range(df.cols)

\* line 839: pd.DataFrame({"file": file_list})
flat_df(fl) ==
  [cols |-> <<KeyCol>>,
   rows |-> [i \in 1..Len(fl) |-> [c \in {KeyCol} |-> fl[i]]]]

\* line 892: current_df[kf] = ""  (overwrites an existing column, else
\* appends a new one; every row gets the empty default)
SetColumn(df, kf) ==
  [cols |-> IF kf \in Columns(df) THEN df.cols ELSE Append(df.cols, kf),
   rows |-> [i \in DOMAIN df.rows |->
               [c \in Columns(df) \cup {kf} |->
                  IF c = kf THEN Empty ELSE df.rows[i][c]]]]

\* line 892: for kf in sorted(new_keys): current_df[kf] = ""
SortedSeq(S) == SelectSeq(SortedFields, LAMBDA x : x \in S)

RECURSIVE SetColumns(_, _)
SetColumns(df, ks) ==
  IF ks = <<>> THEN df ELSE SetColumns(SetColumn(df, Head(ks)), Tail(ks))

\* lines 894, 897: current_df.index[current_df["file"] == rel]
RowIndex(df, rel) == {i \in DOMAIN df.rows : df.rows[i][KeyCol] = rel}

\* line 896: current_df.loc[len(current_df)] = {"file": rel, **{k: ""}}
\* (a key of all_keys named "file" replaces the "file": rel entry)
AppendRow(df, rel, keys) ==
  [cols |-> df.cols,
   rows |-> Append(df.rows,
              [c \in Columns(df) |->
                 IF c \in keys THEN Empty
                 ELSE IF c = KeyCol THEN rel ELSE NoneVal])]

\* line 899: current_df.at[r, kf] = answers[kf] for every known key in answers
SetCells(df, r, keys, m) ==
  [cols |-> df.cols,
   rows |-> [i \in DOMAIN df.rows |->
               IF i # r THEN df.rows[i]
               ELSE [c \in Columns(df) |->
                       IF c \in keys /\ c \in DOMAIN m THEN m[c]
                       ELSE df.rows[i][c]]]]

\* lines 902, 904, 906: current_df.fillna("")
fillna(df) ==
  [cols |-> df.cols,
   rows |-> [i \in DOMAIN df.rows |->
               [c \in Columns(df) |->
                  IF df.rows[i][c] = NoneVal THEN Empty ELSE df.rows[i][c]]]]

FirstOf(S) == CHOOSE i \in S : \A j \in S : i <= j

NewKeysAll(m, keys) == DOMAIN m

\* line 890: new_keys = set(answers.keys()) - all_keys
NewKeys(m, keys) == DOMAIN m \ keys

\* lines 889-899: the body of the as_completed loop for one future, up to
\* the counter.  raised = an exception left the loop body.
MergeStep(df, keys, f) ==
  IF f.exc THEN [df |-> df, keys |-> keys, raised |-> TRUE]
  ELSE IF ~f.answers.isMap
    THEN [df |-> df, keys |-> keys, raised |-> TRUE]    \* answers.keys()
  ELSE
    LET m == f.answers.m
        new_keys == NewKeys(m, keys)
        df1 == SetColumns(df, SortedSeq(new_keys))
        keys1 == keys \cup new_keys
        ridx0 == RowIndex(df1, f.rel)
        df2 == IF ridx0 = {} THEN AppendRow(df1, f.rel, keys1) ELSE df1
        ridx == RowIndex(df2, f.rel)
        hits == keys1 \cap DOMAIN m
    IN IF hits # {} /\ ridx = {}
         THEN [df |-> df2, keys |-> keys1, raised |-> TRUE]   \* ridx[0]
         ELSE IF hits = {}
           THEN [df |-> df2, keys |-> keys1, raised |-> FALSE]
           ELSE [df |-> SetCells(df2, FirstOf(ridx), keys1, m),
                 keys |-> keys1, raised |-> FALSE]

\* -------------------------------------------------------------- prompts
\* Text is a sequence of characters; str.strip() drops the blanks at both
\* ends.
Space == " "
RECURSIVE LStrip(_)
LStrip(s) == IF s # <<>> /\ Head(s) = Space THEN LStrip(Tail(s)) ELSE s
RECURSIVE RStrip(_)
RStrip(s) ==
  IF s # <<>> /\ s[Len(s)] = Space THEN RStrip(SubSeq(s, 1, Len(s) - 1)) ELSE s
strip(s) == RStrip(LStrip(s))

\* Python values found under a key of a prompts dict.
NoD == [x \in {} |-> <<>>]
StrV(s) == [t |-> "str", s |-> s, d |-> NoD]
DictV(d) == [t |-> "dict", s |-> <<>>, d |-> d]
NumV == [t |-> "num", s |-> <<>>, d |-> NoD]

\* Prompt objects: a dict, a list, or anything else (None, a number).
DictP(d) == [kind |-> "dict", d |-> d, l |-> <<>>]
ListP(l) == [kind |-> "list", d |-> NoD, l |-> l]
OtherP == [kind |-> "other", d |-> NoD, l |-> <<>>]
EmptyDict == DictP(NoD)

\* line 171: for kk in ("question","prompt","q","text")
QKeys == <<"question", "prompt", "q", "text">>
FirstQ(d) ==
  SelectSeq(QKeys, LAMBDA kk : kk \in DOMAIN d /\ strip(d[kk]) # <<>>)

\* line 180: ['q', f"Extract key facts for class {class_name or ''}."]
GenericQuestion(c) == ListP(<<"q", <<"Extract key facts for class ", c, ".">>>>)

canonicalize_keep_empty(p, c) == IF p.kind = "other" THEN GenericQuestion(c) ELSE p

\* lines 162-180.  c = "" stands for a class_name of None or ''.
canonicalize_for_storage(p, c) ==
  LET single == /\ p.kind = "dict"
                /\ Cardinality(DOMAIN p.d) = 1
                /\ c # ""
                /\ c \in DOMAIN p.d
                /\ p.d[c].t = "dict"
                /\ FirstQ(p.d[c].d) # <<>>
      usable(v) == \/ v.t = "str" /\ strip(v.s) # <<>>
                   \/ v.t = "dict" /\ FirstQ(v.d) # <<>>
      flatKeys == {k \in DOMAIN p.d : usable(p.d[k])}
      flat == [k \in flatKeys |->
                 StrV(IF p.d[k].t = "str" THEN strip(p.d[k].s)
                      ELSE strip(p.d[k].d[Head(FirstQ(p.d[k].d))]))]
  IN IF p.kind = "list" THEN p
     ELSE IF single
       THEN ListP(<<"q", strip(p.d[c].d[Head(FirstQ(p.d[c].d))])>>)
     ELSE IF p.kind = "dict" /\ flatKeys # {} THEN DictP(flat)
     ELSE GenericQuestion(c)

\* lines 182-183
normalize_for_extract(p, c) == canonicalize_for_storage(p, c)

\* JSON text as the database hands it back: the opening, the value, the
\* closing; a text that lacks one of them does not parse.
Dumps(o) == <<"begin", o, "end">>
Loads(text) ==
  IF Len(text) = 3 /\ text[1] = "begin" /\ text[3] = "end"
    THEN [ok |-> TRUE, obj |-> text[2]]
    ELSE [ok |-> FALSE, obj |-> OtherP]

\* What df.iloc[0]["PROMPTS"] can be: a str, a dict/list, or None.
TextRaw(tx) == [t |-> "text", text |-> tx, obj |-> OtherP]
ObjRaw(o) == [t |-> "obj", text |-> <<>>, obj |-> o]
NullRaw == [t |-> "null", text |-> <<>>, obj |-> OtherP]

\* The rows of CLASS_PROMPTS the SELECT of line 153 returns.
PromptRows(tbl, c) == SelectSeq(tbl, LAMBDA r : r.class_name = c)

\* lines 150-159.  ok = the query of line 153 ran.
load_prompts_obj(c, tbl, ok) ==
  IF c = "" THEN EmptyDict
  ELSE IF ~ok THEN EmptyDict
  ELSE IF PromptRows(tbl, c) = <<>> THEN EmptyDict
  ELSE LET raw == PromptRows(tbl, c)[1].prompts
       IN IF raw.t = "obj"
            THEN IF raw.obj.kind \in {"dict", "list"} THEN raw.obj ELSE EmptyDict
          ELSE IF raw.t = "text"
            THEN IF Loads(raw.text).ok THEN Loads(raw.text).obj ELSE EmptyDict
          ELSE EmptyDict

NoLoad == [ok |-> TRUE, obj |-> OtherP]
NoCalls == [st \in {"seed", "load", "extract", "ocr"} |-> 0]

\* lines 424-431 and the names bound before the classification loop.
RunStart(c) ==
  /\ attempt = 0
  /\ sleeps = 0
  /\ doc_class = c
  /\ errors = {}
  /\ failed = {}
  /\ calls = NoCalls
  /\ loaded = NoLoad
  /\ single_prompts = OtherP
  /\ sent = OtherP
  /\ single_answers = EmptyAnswers
  /\ has_result = FALSE
  /\ ocr_failed = FALSE
  /\ marked = FALSE

\* No pipeline run yet; NEW_UPLOADS and DOCUMENT_OCR as ensure_tables
\* creates them (lines 64-77).
AppIdle ==
  /\ spc = "idle"
  /\ run = 0
  /\ internal_name = ""
  /\ RunStart(NoneVal)
  /\ NEW_UPLOADS = <<>>
  /\ DOCUMENT_OCR = {}

\* ----------------------------------------------------------------- Init
\* State on entry to the as_completed loop (lines 839-887): the table has
\* one row per list entry, every list entry is submitted, nothing has run.
FileLists == UNION {[1..n -> Keys] : n \in 1..MaxFiles}

\* Class schemas (line 824): the field names of the prompts of RUN_CLASS.
Schemas == {S \in SUBSET FieldNames : S # {} /\ Cardinality(S) <= MaxFields}

BatchStart(fl, po, c, wf, steps, elapsed) ==
  /\ file_list = fl
  /\ prompts_obj = po
  /\ cpus = c
  /\ write_faults = wf
  /\ ticks = steps
  /\ horizon = EpochNow + elapsed
  /\ clock = EpochNow
  /\ last_render = 0
  /\ shown = flat_df(fl)
  /\ shown_at = EpochNow
  /\ renders = 1
  /\ prog = <<0, Len(fl)>>
  /\ max_workers = PoolSize(cpus)
  /\ wpc = [i \in 1..Len(file_list) |-> "queued"]
  /\ starts = [i \in 1..Len(file_list) |-> 0]
  /\ res_obj = [i \in 1..Len(file_list) |-> NoResObj]
  /\ answers = [i \in 1..Len(file_list) |-> EmptyAnswers]
  /\ fut = [i \in 1..Len(file_list) |-> NoFut]
  /\ writes = [i \in 1..Len(file_list) |-> NoWrites]
  /\ DOCUMENTS_PROCESSED = {}
  /\ DOCUMENTS_EXTRACTED_FIELDS = {}
  /\ consumed = {}
  /\ merged = {}
  /\ all_keys = {}
  /\ current_df = flat_df(file_list)
  /\ done = 0
  /\ cpc = "loop"
  /\ returned = flat_df(<<>>)

\* A batch behind the tables ensure_tables has just created.
Start0(fl, po, c, wf) ==
  /\ BatchStart(fl, po, c, wf, SlowSteps, 151 * Len(fl))
  /\ AppIdle
  /\ CLASS_PROMPTS = <<>>

Init ==
  \E fl \in FileLists, po \in Schemas, c \in CpuHints :
    Start0(fl, po, c, MaxWriteFaults)

\* Long lists on a small host: more files than pool threads, one-field schema.
KeySeq == <<"a", "b">>
Alternating(n) == [i \in 1..n |-> KeySeq[((i - 1) % 2) + 1]]
InitLong ==
  \E n \in 1..MaxLongFiles : Start0(Alternating(n), {"f"}, 1, MaxWriteFaults)

\* The same with a store that never fails.
InitPool == \E n \in 1..MaxPoolFiles : Start0(Alternating(n), {"f"}, 1, 0)

\* The same while up to MaxElapsed milliseconds pass.
InitRender ==
  \E n \in 1..MaxRenderFiles :
    /\ BatchStart(Alternating(n), {"f"}, 1, 0, ClockSteps, MaxElapsed)
    /\ AppIdle
    /\ CLASS_PROMPTS = <<>>

\* Lists with and without a repeated key, two-field class schemas.
Repeating(n) == [i \in 1..n |-> KeySeq[1]]
InitTwice ==
  \E n \in 1..MaxTwiceFiles :
    \E fl \in {Alternating(n), Repeating(n)}, po \in {{"f", "g"}, {"f", KeyCol}} :
      Start0(fl, po, 1, 0)

\* One file on every host size.
InitCpu ==
  \E c \in {Unknown} \cup (0..MaxCpus) : Start0(<<"a">>, {"f"}, c, MaxWriteFaults)

\* -------------------------------------------------------------- workers
Running == {i \in Items : wpc[i] \in {"extract", "persist"}}
InFlight == {i \in Items : wpc[i] = "extract"}

SlotFreeOffByOne(running, limit) == Cardinality(running) <= limit

\* line 886: ThreadPoolExecutor(max_workers=max_workers) runs a work item
\* only on one of its max_workers threads.
SlotFree(running, limit) == Cardinality(running) < limit

\* A pool thread takes the next queued work item (FIFO work queue) and
\* calls process_one, which enters ai_extract (line 852).
Start(i) ==
  /\ cpc \in {"loop", "raising"}
  /\ wpc[i] = "queued"
  /\ \A j \in Items : j < i => wpc[j] # "queued"
  /\ SlotFree(Running, max_workers)
  /\ wpc' = [wpc EXCEPT ![i] = "extract"]
  /\ starts' = [starts EXCEPT ![i] = @ + 1]
  /\ UNCHANGED <<app, env, res_obj, answers, fut, store, table, render>>

\* ai_extract returns r (lines 852-854).
ExtractReturns(i) ==
  /\ wpc[i] = "extract"
  /\ \E r \in ExtractResults(prompts_obj) :
       /\ res_obj' = [res_obj EXCEPT ![i] = ResObjOf(r)]
       /\ answers' = [answers EXCEPT ![i] = AnswersOf(r)]
  /\ wpc' = [wpc EXCEPT ![i] = "persist"]
  /\ UNCHANGED <<app, env, starts, fut, store, table, render>>

\* ai_extract raises (lines 855-856).
ExtractRaises(i) ==
  /\ wpc[i] = "extract"
  /\ res_obj' = [res_obj EXCEPT ![i] = ResObjOnRaise]
  /\ answers' = [answers EXCEPT ![i] = EmptyAnswers]
  /\ wpc' = [wpc EXCEPT ![i] = "persist"]
  /\ UNCHANGED <<app, env, starts, fut, store, table, render>>

\* lines 857-879: the two best-effort writes, then the return.  ok1/ok2
\* say whether write_pandas succeeded.
Persist(i) ==
  /\ wpc[i] = "persist"
  /\ \E ok1 \in BOOLEAN, ok2 \in BOOLEAN :
       LET ans == answers[i]
           rel == file_list[i]
           second == AttemptsFields(ans)
           failures == (IF ok1 THEN 0 ELSE 1) + (IF ok2 THEN 0 ELSE 1)
       IN /\ (~second) => ok2
          /\ failures <= write_faults
          /\ write_faults' = write_faults - failures
          /\ writes' = [writes EXCEPT ![i] =
                 [proc |-> WriteTries(ok1), procOk |-> ok1,
                  procErr |-> res_obj[i].err,
                  fields |-> IF second THEN WriteTries(ok2) ELSE 0,
                  fieldsOk |-> second /\ ok2,
                  rows |-> IF second THEN FieldRows(ans) ELSE {}]]
          /\ DOCUMENTS_PROCESSED' =
               IF ok1
               THEN DOCUMENTS_PROCESSED \cup
                      {[idx |-> i, FILE_REF |-> rel,
                        EXTRACTION_RESULT |-> res_obj[i]]}
               ELSE DOCUMENTS_PROCESSED
          /\ DOCUMENTS_EXTRACTED_FIELDS' =
               IF second /\ ok2
               THEN DOCUMENTS_EXTRACTED_FIELDS \cup
                      {[idx |-> i, FILE_REF |-> rel, FIELD_NAME |-> k0,
                        FIELD_VALUE |-> ans.m[k0]] : k0 \in FieldRows(ans)}
               ELSE DOCUMENTS_EXTRACTED_FIELDS
          /\ fut' = [fut EXCEPT ![i] =
                 ProcessOneResult(rel, ans, ~ok1, second /\ ~ok2)]
  /\ wpc' = [wpc EXCEPT ![i] = "done"]
  /\ UNCHANGED <<app, env, starts, res_obj, answers, table, render>>

\* ---------------------------------------------------------- coordinator
\* time.time() (line 845): a reading not before the previous one.
ClockReadings(prev, steps, latest) ==
  {prev + d : d \in {e \in steps : prev + e <= latest}}

maybe_render_unthrottled(df, now, last, old) ==
  [rendered |-> TRUE, shown |-> df, last_render |-> now]

\* lines 844-847: maybe_render(df) at clock reading now.
maybe_render(df, now, last, old) ==
  IF now - last > RenderGapMs
    THEN [rendered |-> TRUE, shown |-> df, last_render |-> now]
    ELSE [rendered |-> FALSE, shown |-> old, last_render |-> last]

FinalRenderThrottled(df, now, last, old) == maybe_render(df, now, last, old).shown

\* line 904: show_table(current_df.fillna(""), ...) after the loop.
FinalRender(df, now, last, old) == df

\* One iteration of `for fut in as_completed(futures)` (lines 888-902).
Merge(i) ==
  /\ cpc = "loop"
  /\ wpc[i] = "done"
  /\ i \notin consumed
  /\ LET step == MergeStep(current_df, all_keys, fut[i])
     IN /\ current_df' = step.df
        /\ all_keys' = step.keys
        /\ cpc' = IF step.raised THEN "raising" ELSE "loop"
  /\ done' = IF cpc' = "raising" THEN done ELSE done + 1
  /\ merged' = IF cpc' = "raising" THEN merged ELSE merged \cup {i}
  /\ IF cpc' = "raising"
       THEN UNCHANGED render
       ELSE \E now \in ClockReadings(clock, ticks, horizon) :
              LET r == maybe_render(fillna(current_df'), now, last_render, shown)
              IN /\ prog' = <<done', total>>
                 /\ clock' = now
                 /\ last_render' = r.last_render
                 /\ shown' = r.shown
                 /\ shown_at' = IF r.rendered THEN now ELSE shown_at
                 /\ renders' = IF r.rendered THEN renders + 1 ELSE renders
  /\ consumed' = consumed \cup {i}
  /\ UNCHANGED <<app, env, worker, store, returned>>

\* lines 904-906: every future was yielded; the pool is shut down and the
\* table is returned.
Finish ==
  /\ cpc = "loop"
  /\ consumed = Items
  /\ returned' = fillna(current_df)
  /\ cpc' = "returned"
  /\ shown' = FinalRender(fillna(current_df), clock, last_render, shown)
  /\ shown_at' = clock
  /\ renders' = renders + 1
  /\ UNCHANGED <<app, env, worker, store, clock, last_render, prog,
                 consumed, merged, all_keys, current_df, done>>

\* line 886: an exception leaving the with-block waits for every submitted
\* work item (shutdown(wait=True)) and then leaves stream_files.
Propagate ==
  /\ cpc = "raising"
  /\ \A i \in Items : wpc[i] = "done"
  /\ cpc' = "raised"
  /\ UNCHANGED <<app, env, worker, store, render,
                 consumed, merged, all_keys, current_df, done, returned>>

Next ==
  \/ \E i \in Items : Start(i)
  \/ \E i \in Items : ExtractReturns(i)
  \/ \E i \in Items : ExtractRaises(i)
  \/ \E i \in Items : Persist(i)
  \/ \E i \in Items : Merge(i)
  \/ Finish
  \/ Propagate

Spec == Init /\ [][Next]_vars
SpecLong == InitLong /\ [][Next]_vars
SpecCpu == InitCpu /\ [][Next]_vars

\* Every call returns or raises and every thread keeps being scheduled:
\* a run does not stop while a worker or the coordinator can take a step.
\* (No step can be taken twice, so this is the same as fairness of each
\* action on its own.)
Fairness == WF_vars(Next)

SpecPool == InitPool /\ [][Next]_vars
SpecRender == InitRender /\ [][Next]_vars
SpecTwice == InitTwice /\ [][Next]_vars
FairSpecPool == SpecPool /\ Fairness

\* ---------------------------------------------------- loading the prompts
\* What a PROMPTS cell can hold, and the tables a class is looked up in.
PromptValues ==
  {StrV(<<" ", "x">>), StrV(<<" ">>), DictV("text" :> <<"x", " ">>),
   DictV(("question" :> <<" ">>) @@ ("q" :> <<"x">>)), DictV(NoD), NumV}
PromptKeys == {"f", "invoice"}
PromptDicts == UNION {[S -> PromptValues] : S \in SUBSET PromptKeys}
PromptObjects ==
  {DictP(d) : d \in PromptDicts} \cup {ListP(<<"q", <<"x">>>>), OtherP}
StoredRaws ==
  {NullRaw, TextRaw(<<>>)}
  \cup {ObjRaw(o) : o \in PromptObjects}
  \cup {TextRaw(Dumps(o)) : o \in PromptObjects}
  \cup {TextRaw(<<"begin", o>>) : o \in PromptObjects}
PromptTables ==
  {<<>>} \cup {<<[class_name |-> k, prompts |-> raw]>> :
                 k \in Classes, raw \in StoredRaws}

\* No batch in progress.
NoBatch == BatchStart(<<>>, {"f"}, 1, 0, SlowSteps, 0)

InitPrompts ==
  /\ NoBatch
  /\ CLASS_PROMPTS \in PromptTables
  /\ NEW_UPLOADS = <<>>
  /\ DOCUMENT_OCR = {}
  /\ spc = "idle"
  /\ run = 0
  /\ internal_name = ""
  /\ \E c \in Classes \cup {""} : RunStart(c)

\* line 824 (the batch page; line 490 is the same call) followed by the
\* normalize_for_extract of ai_extract (line 205): the prompts of class
\* doc_class as loaded, as handed to ai_extract, and as sent.
LoadPrompts ==
  /\ spc = "idle"
  /\ \E ok \in BOOLEAN :
       LET obj == load_prompts_obj(doc_class, CLASS_PROMPTS, ok)
           po == normalize_for_extract(obj, doc_class)
       IN /\ loaded' = [ok |-> ok, obj |-> obj]
          /\ failed' = IF ok THEN failed ELSE failed \cup {"load"}
          /\ single_prompts' = po
          /\ sent' = normalize_for_extract(po, "")
  /\ calls' = [calls EXCEPT !["load"] = @ + 1]
  /\ spc' = "ready"
  /\ UNCHANGED <<batch, tables, DOCUMENTS_PROCESSED, DOCUMENTS_EXTRACTED_FIELDS,
                 run, internal_name, attempt, sleeps, doc_class, errors,
                 single_answers, has_result, ocr_failed, marked>>

NextPrompts == LoadPrompts
SpecPrompts == InitPrompts /\ [][NextPrompts]_vars

\* ------------------------------------------------------------- the tables
UploadNames == {"a", "b"}     \* names of uploaded files
MaxAttempts == 5              \* line 464: range(1, 6)

InsertOnly(tbl, kf, row) == Append(tbl, row)

\* lines 188-194, 548-554, 920-926: MERGE INTO tbl ON the key column kf;
\* WHEN MATCHED sets every other column of the matching rows.
Upsert(tbl, kf, row) ==
  IF \E i \in DOMAIN tbl : tbl[i][kf] = row[kf]
    THEN [i \in DOMAIN tbl |-> IF tbl[i][kf] = row[kf] THEN row ELSE tbl[i]]
    ELSE Append(tbl, row)

\* line 198: DELETE FROM CLASS_PROMPTS WHERE class_name = ...
DeleteRows(tbl, kf, key) == SelectSeq(tbl, LAMBDA r : r[kf] # key)

\* lines 481-489: INSERT ... WHERE NOT EXISTS (a row of that class)
SeedInsertAlways(tbl, c, raw) == Append(tbl, [class_name |-> c, prompts |-> raw])
SeedInsert(tbl, c, raw) ==
  IF PromptRows(tbl, c) = <<>>
    THEN Append(tbl, [class_name |-> c, prompts |-> raw])
    ELSE tbl

\* What PARSE_JSON(AI_COMPLETE(...)) stores: a JSON null, or a schema with
\* one question that still carries a trailing blank.
GeneratedRaws ==
  {TextRaw(Dumps(OtherP)), TextRaw(Dumps(DictP("f" :> StrV(<<"x", " ">>))))}

\* What the editor of Manage Classes hands to save_prompts: here a schema
\* nested under the class name invoice.
SaveInputs == {DictP("invoice" :> DictV("text" :> <<"x", " ">>))}

UploadRow(f, p) == [file_name |-> f, processed |-> p]
Ended == {"complete", "stopped", "crashed"}

\* lines 185-195 behind the Save button (line 637).
SavePrompts(c, p) ==
  /\ spc = "idle"
  /\ CLASS_PROMPTS' =
       Upsert(CLASS_PROMPTS, "class_name",
              [class_name |-> c,
               prompts |-> TextRaw(Dumps(canonicalize_for_storage(p, c)))])
  /\ UNCHANGED <<batch, pipeline, NEW_UPLOADS, DOCUMENT_OCR,
                 DOCUMENTS_PROCESSED, DOCUMENTS_EXTRACTED_FIELDS>>

\* lines 197-199 behind the Delete button (line 643) of an existing class.
DeleteClass(c) ==
  /\ spc = "idle"
  /\ PromptRows(CLASS_PROMPTS, c) # <<>>
  /\ CLASS_PROMPTS' = DeleteRows(CLASS_PROMPTS, "class_name", c)
  /\ UNCHANGED <<batch, pipeline, NEW_UPLOADS, DOCUMENT_OCR,
                 DOCUMENTS_PROCESSED, DOCUMENTS_EXTRACTED_FIELDS>>

\* lines 916-926: one uploaded file of the batch page is staged and
\* registered as not processed.
BatchUpload(f) ==
  /\ spc = "idle"
  /\ NEW_UPLOADS' = Upsert(NEW_UPLOADS, "file_name", UploadRow(f, FALSE))
  /\ UNCHANGED <<batch, pipeline, CLASS_PROMPTS, DOCUMENT_OCR,
                 DOCUMENTS_PROCESSED, DOCUMENTS_EXTRACTED_FIELDS>>

\* ------------------------------------------- the single-document pipeline
\* lines 422-452: a rerun of the page with an uploaded file; the state of
\* the last run is reset and ocr_job is submitted.
StartRun(f) ==
  /\ spc = "idle"
  /\ run < MaxRuns
  /\ run' = run + 1
  /\ internal_name' = f
  /\ spc' = "classify"
  /\ attempt' = 0
  /\ sleeps' = 0
  /\ doc_class' = NoneVal
  /\ errors' = {}
  /\ failed' = {}
  /\ calls' = [NoCalls EXCEPT !["ocr"] = 1]
  /\ loaded' = NoLoad
  /\ single_prompts' = OtherP
  /\ sent' = OtherP
  /\ single_answers' = EmptyAnswers
  /\ has_result' = FALSE
  /\ ocr_failed' = FALSE
  /\ marked' = FALSE
  /\ UNCHANGED <<batch, tables, DOCUMENTS_PROCESSED, DOCUMENTS_EXTRACTED_FIELDS>>

\* line 471: `if not doc_class` after the loop.
NoClass(c) == c = NoneVal

\* lines 464-470, an attempt that raises: one sleep, then the next
\* attempt, or lines 471-474 after the last.
ClassifyRaises ==
  /\ spc = "classify"
  /\ attempt < MaxAttempts
  /\ attempt' = attempt + 1
  /\ sleeps' = sleeps + 1
  /\ IF attempt + 1 = MaxAttempts
       THEN /\ spc' = "stopped"
            /\ errors' = errors \cup {"classify"}
            /\ failed' = failed \cup {"classify"}
       ELSE UNCHANGED <<spc, errors, failed>>
  /\ UNCHANGED <<batch, tables, DOCUMENTS_PROCESSED, DOCUMENTS_EXTRACTED_FIELDS,
                 run, internal_name, doc_class, calls, loaded, single_prompts,
                 sent, single_answers, has_result, ocr_failed, marked>>

\* lines 465-466, an attempt that returns a class name or NULL: break,
\* then lines 471-476.
ClassifyReturns ==
  /\ spc = "classify"
  /\ attempt < MaxAttempts
  /\ attempt' = attempt + 1
  /\ \E c \in Classes \cup {NoneVal} :
       /\ doc_class' = c
       /\ IF NoClass(c)
            THEN spc' = "stopped" /\ errors' = errors \cup {"classify"}
            ELSE spc' = "seed" /\ errors' = errors
  /\ UNCHANGED <<batch, tables, DOCUMENTS_PROCESSED, DOCUMENTS_EXTRACTED_FIELDS,
                 run, internal_name, sleeps, failed, calls, loaded,
                 single_prompts, sent, single_answers, has_result, ocr_failed,
                 marked>>

\* lines 480-495, the INSERT raises: st.error and st.stop.
SeedRaises ==
  /\ spc = "seed"
  /\ spc' = "stopped"
  /\ errors' = errors \cup {"prompts"}
  /\ failed' = failed \cup {"seed"}
  /\ calls' = [calls EXCEPT !["seed"] = @ + 1]
  /\ UNCHANGED <<batch, tables, DOCUMENTS_PROCESSED, DOCUMENTS_EXTRACTED_FIELDS,
                 run, internal_name, attempt, sleeps, doc_class, loaded,
                 single_prompts, sent, single_answers, has_result, ocr_failed,
                 marked>>

\* lines 480-492: the INSERT runs, then the prompts are loaded and
\* normalised (load_prompts_obj swallows a failing query).
SeedPrompts ==
  /\ spc = "seed"
  /\ \E raw \in GeneratedRaws, ok \in BOOLEAN :
       LET tbl == SeedInsert(CLASS_PROMPTS, doc_class, raw)
           obj == load_prompts_obj(doc_class, tbl, ok)
       IN /\ CLASS_PROMPTS' = tbl
          /\ loaded' = [ok |-> ok, obj |-> obj]
          /\ failed' = IF ok THEN failed ELSE failed \cup {"load"}
          /\ single_prompts' = normalize_for_extract(obj, doc_class)
  /\ calls' = [calls EXCEPT !["seed"] = @ + 1, !["load"] = @ + 1]
  /\ spc' = "extract"
  /\ UNCHANGED <<batch, NEW_UPLOADS, DOCUMENT_OCR,
                 DOCUMENTS_PROCESSED, DOCUMENTS_EXTRACTED_FIELDS,
                 run, internal_name, attempt, sleeps, doc_class, errors, sent,
                 single_answers, has_result, ocr_failed, marked>>

\* Outcomes of lines 500-505: ai_extract raises or returns something
\* without .get ("raise"); the response is null or a number, so that
\* len(answers) raises after extraction_result was bound ("late"); the
\* response is a mapping, is empty, or is a string or list ("scalar").
SingleOutcomes ==
  {[kind |-> "raise", m |-> NoMap], [kind |-> "late", m |-> NoMap],
   [kind |-> "empty", m |-> NoMap], [kind |-> "scalar", m |-> NoMap],
   [kind |-> "map", m |-> [k0 \in {"f"} |-> "v"]]}

ResultAlwaysBound(o) == TRUE

\* line 502: extraction_result is bound once .get has returned.
ResultBound(o) == o.kind # "raise"

\* lines 498-510: the extraction; its failure is reported and the script
\* goes on with answers = {}.
Extract ==
  /\ spc = "extract"
  /\ sent' = normalize_for_extract(single_prompts, "")
  /\ calls' = [calls EXCEPT !["extract"] = @ + 1]
  /\ \E o \in SingleOutcomes :
       /\ has_result' = ResultBound(o)
       /\ single_answers' =
            IF o.kind = "map" THEN [isMap |-> TRUE, m |-> o.m]
            ELSE IF o.kind = "scalar" THEN [isMap |-> FALSE, m |-> NoMap]
            ELSE EmptyAnswers
       /\ errors' = IF o.kind \in {"raise", "late"}
                      THEN errors \cup {"extract"} ELSE errors
       /\ failed' = IF o.kind = "raise" THEN failed \cup {"extract_call"}
                    ELSE IF o.kind = "late" THEN failed \cup {"extract_len"}
                    ELSE failed
  /\ spc' = "ocr"
  /\ UNCHANGED <<batch, tables, DOCUMENTS_PROCESSED, DOCUMENTS_EXTRACTED_FIELDS,
                 run, internal_name, attempt, sleeps, doc_class, loaded,
                 single_prompts, ocr_failed, marked>>

\* lines 438-448, 512-520: the OCR job ends, by its text or by the
\* "(OCR failed: ...)" text; either way the script goes on.
FinishOcr ==
  /\ spc = "ocr"
  /\ \E ok \in BOOLEAN :
       /\ ocr_failed' = ~ok
       /\ failed' = IF ok THEN failed ELSE failed \cup {"ocr"}
  /\ spc' = "persist"
  /\ UNCHANGED <<batch, tables, DOCUMENTS_PROCESSED, DOCUMENTS_EXTRACTED_FIELDS,
                 run, internal_name, attempt, sleeps, doc_class, errors, calls,
                 loaded, single_prompts, sent, single_answers, has_result,
                 marked>>

\* lines 523-546: session.write_pandas is called outside any try, so a
\* write that raises ends the script before the statements after it.
AfterWriteSwallowed(ok, next) == next
AfterWrite(ok, next) == IF ok THEN next ELSE "crashed"

\* lines 523-528: the DOCUMENTS_PROCESSED row; extraction_result unbound is
\* a NameError, a failing write_pandas is not caught either.
PersistProcessed ==
  /\ spc = "persist"
  /\ \E ok \in BOOLEAN :
       IF has_result /\ ok
         THEN /\ DOCUMENTS_PROCESSED' = DOCUMENTS_PROCESSED \cup
                   {[idx |-> run, FILE_REF |-> internal_name,
                     EXTRACTION_RESULT |-> [kind |-> "answers", err |-> FALSE]]}
              /\ spc' = AfterWrite(ok, "fields")
         ELSE /\ UNCHANGED DOCUMENTS_PROCESSED
              /\ spc' = IF has_result THEN AfterWrite(ok, "fields")
                                        ELSE "crashed"
  /\ UNCHANGED <<batch, tables, pipeline_but_spc, DOCUMENTS_EXTRACTED_FIELDS>>

\* lines 530-539: the DOCUMENTS_EXTRACTED_FIELDS rows of truthy answers;
\* answers.items() of a string or list is an AttributeError.
PersistFields ==
  /\ spc = "fields"
  /\ \E ok \in BOOLEAN :
       IF ~Truthy(single_answers)
         THEN UNCHANGED DOCUMENTS_EXTRACTED_FIELDS /\ spc' = "ocr_row"
       ELSE IF single_answers.isMap /\ ok
         THEN /\ DOCUMENTS_EXTRACTED_FIELDS' = DOCUMENTS_EXTRACTED_FIELDS \cup
                   {[idx |-> run, FILE_REF |-> internal_name, FIELD_NAME |-> k0,
                     FIELD_VALUE |-> single_answers.m[k0]] :
                      k0 \in DOMAIN single_answers.m}
              /\ spc' = "ocr_row"
       ELSE UNCHANGED DOCUMENTS_EXTRACTED_FIELDS /\ spc' = "crashed"
  /\ UNCHANGED <<batch, tables, pipeline_but_spc, DOCUMENTS_PROCESSED>>

\* lines 541-546: the DOCUMENT_OCR row.
PersistOcr ==
  /\ spc = "ocr_row"
  /\ \E ok \in BOOLEAN :
       IF ok
         THEN /\ DOCUMENT_OCR' = DOCUMENT_OCR \cup
                   {[idx |-> run, FILE_NAME |-> internal_name,
                     OCR |-> IF ocr_failed THEN "(OCR failed)" ELSE "content"]}
              /\ spc' = AfterWrite(ok, "mark")
         ELSE UNCHANGED DOCUMENT_OCR /\ spc' = AfterWrite(ok, "mark")
  /\ UNCHANGED <<batch, CLASS_PROMPTS, NEW_UPLOADS, pipeline_but_spc,
                 DOCUMENTS_PROCESSED, DOCUMENTS_EXTRACTED_FIELDS>>

\* lines 548-557: the file is marked processed, "Pipeline complete".
MarkProcessed ==
  /\ spc = "mark"
  /\ \E ok \in BOOLEAN :
       IF ok
         THEN /\ NEW_UPLOADS' =
                   Upsert(NEW_UPLOADS, "file_name", UploadRow(internal_name, TRUE))
              /\ marked' = TRUE
              /\ spc' = "complete"
         ELSE UNCHANGED <<NEW_UPLOADS, marked>> /\ spc' = "crashed"
  /\ UNCHANGED <<batch, CLASS_PROMPTS, DOCUMENT_OCR,
                 DOCUMENTS_PROCESSED, DOCUMENTS_EXTRACTED_FIELDS,
                 run, internal_name, attempt, sleeps, doc_class, errors, failed,
                 calls, loaded, single_prompts, sent, single_answers,
                 has_result, ocr_failed>>

\* The script has ended (st.stop, an exception, or its last line) and the
\* page is left: the names it bound are gone, the tables stay.
LeavePage ==
  /\ spc \in Ended
  /\ spc' = "idle"
  /\ attempt' = 0
  /\ sleeps' = 0
  /\ doc_class' = NoneVal
  /\ errors' = {}
  /\ failed' = {}
  /\ calls' = NoCalls
  /\ loaded' = NoLoad
  /\ single_prompts' = OtherP
  /\ sent' = OtherP
  /\ single_answers' = EmptyAnswers
  /\ has_result' = FALSE
  /\ ocr_failed' = FALSE
  /\ marked' = FALSE
  /\ internal_name' = ""
  /\ UNCHANGED <<batch, tables, run, DOCUMENTS_PROCESSED, DOCUMENTS_EXTRACTED_FIELDS>>

InitApp == Start0(<<>>, {"f"}, 1, 0)

NextApp ==
  \/ \E c \in Classes, p \in SaveInputs : SavePrompts(c, p)
  \/ \E c \in Classes : DeleteClass(c)
  \/ \E f \in UploadNames : BatchUpload(f)
  \/ \E f \in UploadNames : StartRun(f)
  \/ ClassifyRaises
  \/ ClassifyReturns
  \/ SeedRaises
  \/ SeedPrompts
  \/ Extract
  \/ FinishOcr
  \/ PersistProcessed
  \/ PersistFields
  \/ PersistOcr
  \/ MarkProcessed
  \/ LeavePage

SpecApp == InitApp /\ [][NextApp]_vars

\* ------------------------------------------------------------ properties
DynCols(df) == Columns(df) \ {KeyCol}
FieldsOf(i) == IF answers[i].isMap THEN DOMAIN answers[i].m ELSE {}
Shown(v) == IF v = NoneVal THEN Empty ELSE v
NoDupCols(df) == \A p, q \in DOMAIN df.cols : df.cols[p] = df.cols[q] => p = q
Extracted(i) == wpc[i] \in {"persist", "done"}
\* the extraction of item i raised or returned nothing usable as a mapping
Unusable(i) == Extracted(i) /\ (~answers[i].isMap \/ answers[i].m = NoMap)
RaisedOn == consumed \ merged

\* C1: for every non-empty list of file keys and every completion order,
\* the returned table has exactly one row per input file key: each input
\* key is the 'file' value of exactly one row and no row carries a 'file'
\* value that is not an input key.
C1_OneRowPerKey ==
  cpc = "returned" =>
    /\ \A k \in Range(file_list) : Cardinality(RowIndex(returned, k)) = 1
    /\ \A r \in DOMAIN returned.rows :
         returned.rows[r][KeyCol] \in Range(file_list)

\* C2: after each merge the dynamic columns of the table are the union of
\* the field names returned by the items merged so far, no field name is a
\* column twice, and when the batch ends they are the union over all items
\* whose extraction returned fields.  (That the set never shrinks is
\* C2_ColumnsNeverShrink.)
C2_ColumnsAreUnion ==
  /\ cpc = "loop" =>
       DynCols(current_df) = UNION {FieldsOf(i) : i \in merged}
  /\ NoDupCols(current_df)
  /\ cpc \in {"returned", "raised"} =>
       DynCols(current_df) = UNION {FieldsOf(i) : i \in Items}

C2_ColumnsNeverShrink ==
  [][DynCols(current_df) \subseteq DynCols(current_df')]_vars

\* C3: in the returned table, for every input item X and every dynamic
\* column f, the cell (X, f) shows the value X's own extraction returned
\* for f when X's answer contains f, and the empty default otherwise (a
\* null value shows as the empty default); it never shows a value returned
\* for a different item.
C3_OwnAnswerOnly ==
  cpc = "returned" =>
    \A i \in Items : \A r \in RowIndex(returned, file_list[i]) :
      \A f \in DynCols(returned) :
        returned.rows[r][f] =
          IF f \in FieldsOf(i) THEN Shown(answers[i].m[f]) ELSE Empty

\* C4: when the extraction of an item raises or returns an error/unusable
\* result, the batch is not aborted by that item, and in the returned table
\* the item has a row whose dynamic columns are all at the empty default.
C4_FailureIsolated ==
  /\ \A i \in RaisedOn : ~Unusable(i)
  /\ cpc = "returned" =>
       \A i \in Items : Unusable(i) =>
         \E r \in RowIndex(returned, file_list[i]) :
           \A f \in DynCols(returned) : returned.rows[r][f] = Empty

\* C5: stream_files terminates only after all submitted items have
\* completed, with done == total, for every mix of successes and failures.
C5_TerminatesWithAllDone ==
  cpc \in {"returned", "raised"} =>
    /\ \A i \in Items : wpc[i] = "done"
    /\ done = total

\* the effect on the table of merging item i had both its writes succeeded
MergeAsIfWritten(i) ==
  MergeStep(current_df, all_keys,
            ProcessOneResult(file_list[i], answers[i], FALSE, FALSE))

\* C6: a failure of the write to DOCUMENTS_PROCESSED or to
\* DOCUMENTS_EXTRACTED_FIELDS is swallowed: each write is tried once, the
\* worker still returns the item's key and answers, a failed first write
\* does not prevent the second, no abort of the batch is caused by a write,
\* and every merge changes the table exactly as if the writes had succeeded.
C6_WriteFailureSwallowed ==
  /\ [](\A i \in Items :
          /\ wpc[i] = "done" =>
               /\ writes[i].proc = 1 /\ writes[i].fields <= 1
               /\ fut[i] = [exc |-> FALSE, rel |-> file_list[i],
                            answers |-> answers[i]]
               /\ (~writes[i].procOk /\ answers[i].isMap
                     /\ answers[i].m # NoMap) => writes[i].fields = 1
          /\ i \in RaisedOn => (~answers[i].isMap \/ KeyCol \in FieldsOf(i)))
  /\ [][\A i \in Items :
          (i \notin consumed /\ i \in consumed') =>
            /\ current_df' = MergeAsIfWritten(i).df
            /\ all_keys' = MergeAsIfWritten(i).keys
            /\ (cpc' = "raising") = MergeAsIfWritten(i).raised]_vars

\* a run that returned although a first write failed before a second one
C6_Witness ==
  /\ cpc = "returned"
  /\ \E i \in merged :
       ~writes[i].procOk /\ writes[i].fields = 1 /\ FieldsOf(i) # {}
  /\ \E i \in merged : writes[i].fields = 1 /\ ~writes[i].fieldsOk

\* C7: for each item exactly one append to DOCUMENTS_PROCESSED is
\* attempted whether extraction succeeded or failed (the payload carries
\* the error on failure), an append to DOCUMENTS_EXTRACTED_FIELDS is
\* attempted if and only if the item's answer is non-empty, with one record
\* per returned field, and both happen before the item is counted.
C7_PersistenceAttempts ==
  \A i \in Items :
    /\ wpc[i] = "done" =>
         /\ writes[i].proc = 1
         /\ res_obj[i].kind = "error" => writes[i].procErr
         /\ (writes[i].fields = 1) <=> Truthy(answers[i])
         /\ writes[i].fields = 1 => writes[i].rows = FieldsOf(i)
    /\ i \in consumed => wpc[i] = "done"

\* C8: under every interleaving no field name is a column twice and no
\* merged item's value is lost: for every merged item and every field it
\* returned, the item's row holds the value the item returned.
C8_SharedFieldOneColumn ==
  /\ NoDupCols(current_df)
  /\ cpc \in {"loop", "returned"} =>
       \A i \in merged : \A f \in FieldsOf(i) :
         /\ f \in Columns(current_df)
         /\ \E r \in RowIndex(current_df, file_list[i]) :
              current_df.rows[r][f] = answers[i].m[f]

\* C9: the number of extraction calls in flight never exceeds the pool
\* size, an item is started only when a pool thread is free, and every
\* submitted item is eventually started exactly once.
C9_BoundedPool ==
  /\ [](/\ Cardinality(InFlight) <= max_workers
        /\ \A i \in Items : starts[i] <= 1 /\ (wpc[i] = "queued" <=> starts[i] = 0))
  /\ [][\A i \in Items :
          starts'[i] > starts[i] => Cardinality(Running) < max_workers]_vars
  /\ <>(\A i \in Items : starts[i] = 1)

\* an item waits in the queue while every pool thread is inside ai_extract
C9_Witness ==
  /\ \E i \in Items : wpc[i] = "queued"
  /\ Cardinality(InFlight) = max_workers

\* C10 (as stated): the pool size is min(8, max(2, cpus)) with only an
\* unknown CPU count treated as 4.
C10_Original ==
  max_workers = Min(8, Max(2, IF cpus = Unknown THEN 4 ELSE cpus))

\* C10 (amended): the pool size is min(8, max(2, cpus)) with an unknown and
\* a zero CPU count both treated as 4, hence always between 2 and 8, and no
\* item is dispatched with a zero or negative limit.
C10_PoolSizeClamped ==
  /\ max_workers = IF cpus = Unknown \/ cpus = 0 THEN 4
                   ELSE IF cpus < 2 THEN 2
                   ELSE IF cpus > 8 THEN 8 ELSE cpus
  /\ 2 <= max_workers /\ max_workers <= 8
  /\ (\E i \in Items : starts[i] > 0) => max_workers > 0

\* a host reporting zero CPUs has dispatched work on a pool of four
C10_Witness ==
  /\ cpus = 0
  /\ max_workers = 4
  /\ \E i \in Items : starts[i] > 0

\* The 'file' values of the rows of df, in row order.
RowKeys(df) == [r \in DOMAIN df.rows |-> df.rows[r][KeyCol]]
Finished == cpc \in {"returned", "raised"}

\* C11: the completed count starts at 0, grows by exactly one for each item
\* completion taken from as_completed (success or failure) and by nothing
\* else, is what the progress bar reports as done/total, never exceeds
\* total, and equals total when the batch finishes.
C11_CompletedCount ==
  /\ done = Cardinality(consumed)
  /\ prog = <<done, total>>
  /\ done <= total
  /\ Finished => done = total

\* C12: once the last item has been merged the complete table is rendered,
\* whatever maybe_render decided before, and the table that is returned is
\* that table; the clock never enters the table: each completion changes
\* the table to what the merge of that completion alone yields.
C12_FinalRenderComplete ==
  /\ [](cpc = "returned" =>
          /\ merged = Items
          /\ shown = returned
          /\ returned = fillna(current_df))
  /\ [][consumed' # consumed =>
          \E i \in consumed' \ consumed :
            LET step == MergeStep(current_df, all_keys, fut[i])
            IN current_df' = step.df /\ all_keys' = step.keys]_vars

\* A three-file batch returned after maybe_render skipped a completion.
C12_Witness ==
  /\ cpc = "returned"
  /\ total = 3
  /\ renders < total + 2
  /\ clock > EpochNow

\* C13 as stated: a render triggered by a completion happens only if at
\* least RenderGapMs milliseconds passed since the previous render of the
\* table, the initial render of the queued table included.
C13_RenderThrottled ==
  [][(renders' = renders + 1 /\ cpc' # "returned")
       => clock' - shown_at >= RenderGapMs]_vars

\* C13 as the code has it: the first completion always triggers a render,
\* however soon after the initial render it comes; every later render
\* triggered by a completion happens only if at least RenderGapMs
\* milliseconds passed since the previous render of the table.
C13_ThrottledAfterFirst ==
  [][(renders' = renders + 1 /\ cpc' # "returned")
       => (renders = 1 \/ clock' - shown_at >= RenderGapMs)]_vars

\* Two completions were rendered and one in between was skipped.
C13_Witness ==
  /\ cpc = "loop"
  /\ renders = 3
  /\ done = 3
  /\ clock - EpochNow > RenderGapMs

\* C14: the rows are those of the input list, in its order, at every point
\* of the run and in the returned table.
C14_RowOrderIsInputOrder ==
  /\ RowKeys(current_df) = file_list
  /\ cpc = "returned" => RowKeys(returned) = file_list

\* The extractor is a function of the item: equal keys, equal answers.
SameAnswerForSameItem ==
  \A i, j \in Items : file_list[i] = file_list[j] => answers[i] = answers[j]

\* The table every run over file_list with these answers comes to, told
\* without reference to any completion order.
IsFirstOfKey(r) == \A q \in Items : file_list[q] = file_list[r] => r <= q
CanonCols == {KeyCol} \cup UNION {FieldsOf(i) : i \in Items}
CanonRows ==
  [r \in Items |->
     [c \in CanonCols |->
        IF c = KeyCol THEN file_list[r]
        ELSE IF IsFirstOfKey(r) /\ c \in FieldsOf(r)
          THEN Shown(answers[r].m[c])
          ELSE Empty]]

\* C19: two runs over the same list with an extractor that answers the same
\* for the same item return tables equal up to row and column order: every
\* run returns the rows of CanonRows over the columns of CanonCols,
\* whatever its completion order.
C19_SameTableTwice ==
  (cpc = "returned" /\ SameAnswerForSameItem) =>
     /\ Columns(returned) = CanonCols
     /\ NoDupCols(returned)
     /\ returned.rows = CanonRows

\* A returned run whose columns came in the order g, f: the second item
\* completed first.
C19_Witness ==
  /\ cpc = "returned"
  /\ SameAnswerForSameItem
  /\ file_list = <<"a", "b">>
  /\ returned.cols = <<KeyCol, "g", "f">>
  /\ returned.rows[1]["f"] = "v"

\* C20: no merge changes the 'file' value of a row, whatever the answer
\* holds, a field named 'file' included, and the row looked up for the
\* completed item is exactly the row of that item.
C20_KeyColumnKept ==
  [][/\ Len(current_df'.rows) = Len(current_df.rows)
     /\ \A r \in DOMAIN current_df.rows :
          current_df'.rows[r][KeyCol] = current_df.rows[r][KeyCol]
     /\ \A i \in consumed' \ consumed :
          fut[i].answers.isMap =>
            RowIndex(SetColumns(current_df,
                       SortedSeq(NewKeys(fut[i].answers.m, all_keys))),
                     fut[i].rel) = {i}]_vars

\* The stored prompts of doc_class: missing, unreadable, malformed.
Missing == doc_class = "" \/ PromptRows(CLASS_PROMPTS, doc_class) = <<>>
Unreadable == ~loaded.ok
Malformed ==
  /\ ~Missing
  /\ PromptRows(CLASS_PROMPTS, doc_class)[1].prompts.t = "text"
  /\ ~Loads(PromptRows(CLASS_PROMPTS, doc_class)[1].prompts.text).ok

\* C17: when the stored prompts of a class are missing, unreadable or
\* malformed JSON, load_prompts_obj yields the empty schema and
\* normalize_for_extract turns it into the generic free-form question
\* ['q', 'Extract key facts for class <name>.'], which is what ai_extract
\* sends; no error is raised.
C17_FallbackQuestion ==
  (spc = "ready" /\ (Missing \/ Unreadable \/ Malformed)) =>
     /\ loaded.obj = EmptyDict
     /\ single_prompts = GenericQuestion(doc_class)
     /\ sent = GenericQuestion(doc_class)
     /\ errors = {}

\* The prompts of class invoice are a cut-off JSON text and were read.
C17_Witness ==
  /\ spc = "ready"
  /\ Malformed
  /\ loaded.ok
  /\ sent = GenericQuestion("invoice")

\* The run was halted by the classification error (lines 472-474).
HaltedByClassification == spc = "stopped" /\ "classify" \in errors

\* C15: the classification query is issued at most MaxAttempts times, each
\* failed attempt is followed by one wait, no attempt follows the first
\* one that returns, and the run halts with the classification error
\* exactly when all MaxAttempts attempts have failed.
C15_ClassifyRetries ==
  /\ attempt <= MaxAttempts
  /\ sleeps <= attempt
  /\ sleeps < attempt => (attempt = sleeps + 1 /\ spc # "classify")
  /\ HaltedByClassification <=> sleeps = MaxAttempts

FatalSteps == {"classify", "seed", "extract_call"}
AllSteps == FatalSteps \cup {"load", "extract_len", "ocr"}
NoRetry == \A st \in DOMAIN calls : calls[st] <= 1

\* C16 as stated: a failure of any step of the run is fatal, the run never
\* reaches "Pipeline complete" and never marks the file processed; no step
\* other than classification is retried.
C16_Original ==
  /\ failed \cap AllSteps # {} => (spc # "complete" /\ ~marked)
  /\ NoRetry

\* C16 as the code has it: a failure of classification (after its
\* retries), of prompt seeding or of the extraction call is fatal, the run
\* never reaches "Pipeline complete" and never marks the file processed;
\* a run whose OCR failed completes with the failure text as its OCR row;
\* no step other than classification is retried.
C16_FatalSteps ==
  /\ failed \cap FatalSteps # {} => (spc \notin {"mark", "complete"} /\ ~marked)
  /\ (spc = "complete" /\ ocr_failed) =>
        [idx |-> run, FILE_NAME |-> internal_name, OCR |-> "(OCR failed)"]
          \in DOCUMENT_OCR
  /\ NoRetry

\* A run ended by the unbound extraction_result after ai_extract raised.
C16_Witness ==
  /\ spc = "crashed"
  /\ "extract_call" \in failed
  /\ DOCUMENTS_PROCESSED = {}
  /\ ~marked

NoDupKeys(tbl, kf) ==
  \A i, j \in DOMAIN tbl : tbl[i][kf] = tbl[j][kf] => i = j

\* C18: after any sequence of save_prompts, delete_class, pipeline runs and
\* batch uploads, CLASS_PROMPTS has at most one row per class_name and
\* NEW_UPLOADS at most one row per file_name, and no row of
\* DOCUMENTS_PROCESSED, DOCUMENTS_EXTRACTED_FIELDS or DOCUMENT_OCR is ever
\* changed or removed.
C18_KeyedTables ==
  /\ [](/\ NoDupKeys(CLASS_PROMPTS, "class_name")
        /\ NoDupKeys(NEW_UPLOADS, "file_name"))
  /\ [][/\ DOCUMENTS_PROCESSED \subseteq DOCUMENTS_PROCESSED'
         /\ DOCUMENTS_EXTRACTED_FIELDS \subseteq DOCUMENTS_EXTRACTED_FIELDS'
         /\ DOCUMENT_OCR \subseteq DOCUMENT_OCR']_vars

\* Both classes saved, both files uploaded, and a completed run of file b
\* that found its class stored and its upload registered.
C18_Witness ==
  /\ spc = "complete"
  /\ internal_name = "b"
  /\ Len(CLASS_PROMPTS) = 2
  /\ NEW_UPLOADS = <<UploadRow("a", FALSE), UploadRow("b", TRUE)>>
  /\ DOCUMENTS_EXTRACTED_FIELDS # {}
  /\ DOCUMENT_OCR # {}

\* ------------------------------------------------------------------ C21
\* items whose process_one has returned its (rel_path, answers) pair
Handed == {i \in Items : wpc[i] = "done"}

\* C21: for every value ai_extract returns and every exception it raises,
\* the answers value process_one hands to the merge loop is a mapping from
\* field name to value (possibly empty), so the merge step of stream_files
\* never raises in the coordinator thread.
C21_AnswersIsMapping ==
  /\ \A i \in Handed : fut[i].answers.isMap
  /\ cpc \notin {"raising", "raised"}

\* ------------------------------------------------------------------ C22
\* file names whose NEW_UPLOADS row has processed = TRUE
Processed(tbl) == {tbl[k].file_name : k \in {n \in DOMAIN tbl : tbl[n].processed}}
HasDocument(f) == \E d \in DOCUMENTS_PROCESSED : d.FILE_REF = f
HasOcr(f) == \E o \in DOCUMENT_OCR : o.FILE_NAME = f
\* the field records of the current run's answers
RunFields ==
  {[idx |-> run, FILE_REF |-> internal_name, FIELD_NAME |-> k0,
    FIELD_VALUE |-> single_answers.m[k0]] : k0 \in DOMAIN single_answers.m}

\* C22: in every reachable state, a NEW_UPLOADS row with processed = TRUE
\* for a file name implies that DOCUMENTS_PROCESSED and DOCUMENT_OCR each
\* hold a record for that file; the single-document pipeline sets
\* processed = TRUE only as its last write, after the processed-document
\* record, the field records (when answers are non-empty) and the OCR
\* record of the same run were written, and a failed write leaves the flag
\* unset by that run.
C22_ProcessedLast ==
  /\ [](\A f \in Processed(NEW_UPLOADS) : HasDocument(f) /\ HasOcr(f))
  /\ [](marked =>
          /\ \E d \in DOCUMENTS_PROCESSED :
                d.idx = run /\ d.FILE_REF = internal_name
          /\ \E o \in DOCUMENT_OCR :
                o.idx = run /\ o.FILE_NAME = internal_name
          /\ Truthy(single_answers) =>
                RunFields \subseteq DOCUMENTS_EXTRACTED_FIELDS)
  /\ [](spc = "crashed" => ~marked)
  /\ [][Processed(NEW_UPLOADS') \ Processed(NEW_UPLOADS) # {} =>
          /\ spc = "mark" /\ spc' = "complete"
          /\ Processed(NEW_UPLOADS') \ Processed(NEW_UPLOADS) = {internal_name}
          /\ UNCHANGED <<DOCUMENTS_PROCESSED, DOCUMENTS_EXTRACTED_FIELDS,
                         DOCUMENT_OCR>>]_vars

\* A completed run of file a, uploaded in a batch before and now flagged,
\* with its field records and a failed-OCR text as its OCR record, while
\* the uploaded file b stays unprocessed.
C22_Witness ==
  /\ spc = "complete"
  /\ marked
  /\ internal_name = "a"
  /\ NEW_UPLOADS = <<UploadRow("a", TRUE), UploadRow("b", FALSE)>>
  /\ RunFields # {}
  /\ RunFields \subseteq DOCUMENTS_EXTRACTED_FIELDS
  /\ ocr_failed

\* ------------------------------------------------------------------ C23
\* The prompts CLASS_PROMPTS holds for class c, as a query that runs
\* reads them.
StoredPrompts(c) == load_prompts_obj(c, CLASS_PROMPTS, TRUE)
\* the run has passed "ensure prompts" / has issued the extraction
Seeded == spc \in {"extract", "ocr", "persist", "fields", "ocr_row", "mark",
                   "complete", "crashed"} /\ calls["seed"] > 0
Asked == Seeded /\ calls["extract"] > 0
\* the step of lines 480-492 taken by the run
SeedStep == spc = "seed" /\ spc' # "seed"
\* the frame of that step: an existing row of the class is kept as it is
\* and no row is added; otherwise exactly one row of the class is added,
\* holding a generated value, and every other row is kept.
SeedOnce ==
  SeedStep =>
    IF PromptRows(CLASS_PROMPTS, doc_class) # <<>>
      THEN CLASS_PROMPTS' = CLASS_PROMPTS
      ELSE \/ CLASS_PROMPTS' = CLASS_PROMPTS /\ spc' = "stopped"
           \/ /\ spc' = "extract"
              /\ Len(CLASS_PROMPTS') = Len(CLASS_PROMPTS) + 1
              /\ SubSeq(CLASS_PROMPTS', 1, Len(CLASS_PROMPTS)) = CLASS_PROMPTS
              /\ CLASS_PROMPTS'[Len(CLASS_PROMPTS')].class_name = doc_class
              /\ CLASS_PROMPTS'[Len(CLASS_PROMPTS')].prompts \in GeneratedRaws

\* C23 as stated: the pipeline seeds the prompts of a class only once (an
\* existing row is left unchanged and no second row is added, a generated
\* schema is inserted only when the class has no row), and the extraction
\* then uses the stored prompts of that class.
C23_SeedOnceUsesStored ==
  /\ [][SeedOnce]_vars
  /\ [](Seeded => Len(PromptRows(CLASS_PROMPTS, doc_class)) = 1)
  /\ [](Asked => sent = normalize_for_extract(StoredPrompts(doc_class),
                                              doc_class))

\* C23 as the code has it: the seeding is as stated; the extraction uses
\* the stored prompts of the class as load_prompts_obj read them and
\* normalize_for_extract normalised them, and the generic question of the
\* class when the query that reads them failed.
C23_SeedOnce ==
  /\ [][SeedOnce]_vars
  /\ [](Seeded => Len(PromptRows(CLASS_PROMPTS, doc_class)) = 1)
  /\ [](Asked =>
          sent = IF "load" \in failed
                   THEN GenericQuestion(doc_class)
                   ELSE normalize_for_extract(StoredPrompts(doc_class),
                                              doc_class))

\* A run classified as invoice found the row that Manage Classes had
\* saved, added none, and asked the saved question.
C23_Witness ==
  /\ Asked
  /\ doc_class = "invoice"
  /\ "load" \notin failed
  /\ CLASS_PROMPTS =
       <<[class_name |-> "invoice",
          prompts |-> TextRaw(Dumps(ListP(<<"q", <<"x">>>>)))]>>
  /\ sent = ListP(<<"q", <<"x">>>>)

====
